---- MODULE Spec2Model ----
(***************************************************************************)
(* Model of the food-court-manager front end: the LoginForm component      *)
(* (state isLoading / error / showPassword, handlers onSubmit,             *)
(* handleGoogleLogin), the LoginBody schema, the fetch wrapper apiRequest  *)
(* and the typed client made by createApiClient.                           *)
(*                                                                         *)
(* JavaScript values are records [t, v, mt, mv]: t is the JS type, v the   *)
(* text of a primitive, (mt, mv) the type and text of the value's          *)
(* `message` property (mt = "undefined" when it has none).                 *)
(*                                                                         *)
(* A handler segment between two awaits is one action: JavaScript runs it  *)
(* to completion and React commits the setState calls of one segment as    *)
(* one batch.                                                              *)
(***************************************************************************)
EXTENDS Integers, Sequences, FiniteSets

VARIABLES
    isLoading,      \* useState(false)
    error,          \* useState<string | null>(null)
    showPassword,   \* useState(false)
    values,         \* the form's field values {email, password}
    submitCount,    \* submit events handled by form.handleSubmit
    inflight,       \* onSubmit invocations suspended at `await api.post`
    fetchCalls,     \* calls of fetch made for POST /api/auth/login
    pushes,         \* calls of router.push('/home')
    schema,         \* the schema given to createApiClient
    clientUrl,      \* endpoint the client's last call requested
    clientOutcome,  \* what fetch did for the client's last call
    clientResult,   \* the ApiResponse the client's last call returned
    validationFailed \* the client's last call logged 'API response validation failed'

vars == <<isLoading, error, showPassword, values, submitCount, inflight,
          fetchCalls, pushes, schema, clientUrl, clientOutcome, clientResult,
          validationFailed>>

formVars == <<isLoading, error, showPassword, values, submitCount, inflight,
              fetchCalls, pushes>>

clientVars == <<schema, clientUrl, clientOutcome, clientResult, validationFailed>>

-----------------------------------------------------------------------------
(* Bounds *)

\* Submit events one form instance handles.
MaxSubmits == 3

-----------------------------------------------------------------------------
(* JavaScript values *)

JSValue(t, v) == [t |-> t, v |-> v, mt |-> "undefined", mv |-> ""]

JSUndefined == JSValue("undefined", "")

JSNull == JSValue("null", "")

JSString(s) == JSValue("string", s)

JSNumber(s) == JSValue("number", s)

JSBoolean(s) == JSValue("boolean", s)

\* An object whose `message` property has type mt and text mv.
JSObject(mt, mv) == [t |-> "object", v |-> "", mt |-> mt, mv |-> mv]

\* ToBoolean, as `if (x)` and `x || y` apply it.
Truthy(x) ==
    CASE x.t = "undefined" -> FALSE
      [] x.t = "null"      -> FALSE
      [] x.t = "boolean"   -> x.v = "true"
      [] x.t = "number"    -> x.v # "0"
      [] x.t = "string"    -> x.v # ""
      [] OTHER             -> TRUE

\* x || y
Or(x, y) == IF Truthy(x) THEN x ELSE y

\* String(x), as `new Error(x)` applies it to its argument.
JSToString(x) ==
    CASE x.t = "string"    -> x.v
      [] x.t = "undefined" -> "undefined"
      [] x.t = "null"      -> "null"
      [] x.t = "object"    -> "[object Object]"
      [] OTHER             -> x.v

\* A thrown value: an Error carrying a message, or something that is no Error.
Thrown(isError, message) == [isError |-> isError, message |-> message]

\* new Error(x).message: undefined gives the empty message.
NewError(x) == Thrown(TRUE, IF x.t = "undefined" THEN "" ELSE JSToString(x))

\* x.message: reading a property of null or undefined throws a TypeError.
MessageOf(x) ==
    IF x.t \in {"null", "undefined"}
    THEN [threw |-> TRUE,
          thrown |-> Thrown(TRUE, "Cannot read properties of null (reading 'message')"),
          value |-> JSUndefined]
    ELSE [threw |-> FALSE, thrown |-> Thrown(TRUE, ""), value |-> JSValue(x.mt, x.mv)]

-----------------------------------------------------------------------------
(* auth.schema.ts: LoginBody *)

MinPasswordLength == 6

MaxPasswordLength == 100

Letters == {"a", "b"}

Digits == {"1"}

AlphaNum == Letters \cup Digits

\* Positions of character c in s.
Positions(s, c) == {i \in 1..Len(s) : s[i] = c}

\* The part of an address before the @: characters of [A-Z0-9_'+\-\.], not
\* starting with a dot and ending in one of [A-Z0-9_+-].
LocalPartOk(l) ==
    /\ Len(l) >= 1
    /\ \A i \in 1..Len(l) : l[i] \in AlphaNum \cup {"_", "'", "+", "-", "."}
    /\ l[1] # "."
    /\ l[Len(l)] \in AlphaNum \cup {"_", "+", "-"}

\* The part after the @: one or more labels ([A-Z0-9][A-Z0-9\-]*) each followed
\* by a dot, then a top-level name of two or more letters.
DomainOk(d) ==
    /\ Positions(d, ".") # {}
    /\ LET last == CHOOSE i \in Positions(d, ".") : \A j \in Positions(d, ".") : j <= i
           starts == {1} \cup {i + 1 : i \in Positions(d, ".") \ {last}}
       IN  /\ Len(d) - last >= 2
           /\ \A i \in (last + 1)..Len(d) : d[i] \in Letters
           /\ \A i \in starts : d[i] \in AlphaNum
           /\ \A i \in 1..(last - 1) : d[i] \in AlphaNum \cup {"-", "."}

\* z.string().email()
IsEmail(s) ==
    /\ Cardinality(Positions(s, "@")) = 1
    /\ \A i \in 1..(Len(s) - 1) : ~(s[i] = "." /\ s[i + 1] = ".")
    /\ LET at == CHOOSE i \in Positions(s, "@") : TRUE
       IN  /\ LocalPartOk(SubSeq(s, 1, at - 1))
           /\ DomainOk(SubSeq(s, at + 1, Len(s)))

\* IsPassword with the lower bound off by one: five characters pass.
IsPassword_AcceptsFive(s) ==
    Len(s) >= MinPasswordLength - 1 /\ Len(s) <= MaxPasswordLength

\* z.string().min(6).max(100)
IsPassword(s) == Len(s) >= MinPasswordLength /\ Len(s) <= MaxPasswordLength

\* LoginBody.safeParse(v).success
LoginBodyValid(v) == IsEmail(v.email) /\ IsPassword(v.password)

\* A password of n characters.
PasswordOfLength(n) == [i \in 1..n |-> "x"]

Emails ==
    { <<>>,
      <<"a", "@", "b">>,
      <<"a", "@", "b", ".", "a">>,
      <<"a", ".", "@", "b", ".", "a", "b">>,
      <<"a", "@", "b", ".", "a", "b">> }

Passwords ==
    { PasswordOfLength(n) :
        n \in {MinPasswordLength - 1, MinPasswordLength,
               MaxPasswordLength, MaxPasswordLength + 1} }

-----------------------------------------------------------------------------
(* The platform's fetch, as apiRequest sees it *)

\* What a call of fetch does: kind "none" while it is pending, "rejected" when
\* its promise rejects with `thrown`, "response" when it resolves to a Response
\* with the given status, content-type header and body text.
Outcome(kind, thrown, status, contentType, body) ==
    [kind |-> kind, thrown |-> thrown, status |-> status,
     contentType |-> contentType, body |-> body]

NoOutcome == Outcome("none", Thrown(FALSE, ""), 0, <<>>, "")

Rejected(thrown) == Outcome("rejected", thrown, 0, <<>>, "")

Response(status, contentType, body) ==
    Outcome("response", Thrown(FALSE, ""), status, contentType, body)

\* Values a fetch promise rejects with: TypeErrors whose text is the browser's,
\* an Error with an empty message, and a value that is no Error.
ThrownValues ==
    { Thrown(TRUE, "Failed to fetch"), Thrown(TRUE, "Load failed"),
      Thrown(TRUE, ""), Thrown(FALSE, "aborted") }

Statuses == {200, 204, 401}

\* A content-type header is its media type followed by its parameters; <<>> is
\* a response without the header (headers.get gives null).
ContentTypes ==
    { <<>>, <<"text/plain">>, <<"application/json", "charset=utf-8">> }

Bodies ==
    { "", "OK", "null", "0", "{}", "{\"message\":\"\"}",
      "{\"message\":\"Invalid credentials\"}",
      "{\"data\":{\"accessToken\":\"t\"},\"message\":\"Login successfully\"}" }

Responses ==
    { Response(st, ct, b) : st \in Statuses, ct \in ContentTypes, b \in Bodies }

Outcomes == { Rejected(t) : t \in ThrownValues } \cup Responses

\* response.ok
Ok(o) == o.kind = "response" /\ o.status >= 200 /\ o.status <= 299

\* `${statusCode}`
StatusText(n) ==
    CASE n = 200 -> "200"
      [] n = 204 -> "204"
      [] n = 401 -> "401"
      [] n = 500 -> "500"
      [] OTHER   -> "0"

\* contentType && contentType.includes('application/json')
IsJsonContentType(ct) ==
    /\ ct # <<>>
    /\ \E i \in 1..Len(ct) : ct[i] = "application/json"

\* response.json(): JSON.parse of the body text; `threw` with the SyntaxError
\* when the text is no JSON.
JsonParse(body) ==
    LET value(x)  == [threw |-> FALSE, thrown |-> Thrown(TRUE, ""), value |-> x]
        syntax(m) == [threw |-> TRUE, thrown |-> Thrown(TRUE, m), value |-> JSUndefined]
    IN  CASE body = ""     -> syntax("Unexpected end of JSON input")
          [] body = "null" -> value(JSNull)
          [] body = "0"    -> value(JSNumber("0"))
          [] body = "{}"   -> value(JSObject("undefined", ""))
          [] body = "{\"message\":\"\"}"
                           -> value(JSObject("string", ""))
          [] body = "{\"message\":\"Invalid credentials\"}"
                           -> value(JSObject("string", "Invalid credentials"))
          [] body = "{\"data\":{\"accessToken\":\"t\"},\"message\":\"Login successfully\"}"
                           -> value(JSObject("string", "Login successfully"))
          [] OTHER         -> syntax("Unexpected token O in JSON at position 0")

-----------------------------------------------------------------------------
(* utils/api.ts: apiRequest *)

\* ApiResponse<T>: a missing data or error is undefined.
ApiResponse(data, err, statusCode) ==
    [data |-> data, error |-> err, statusCode |-> statusCode]

NoResponse == ApiResponse(JSUndefined, JSUndefined, 0)

\* ApiCatch that drops the exception's text for the fixed message.
ApiCatch_AlwaysGeneric(thrown) ==
    ApiResponse(JSUndefined, JSString("Network error"), 500)

\* catch (error): error instanceof Error ? error.message : 'Network error'
ApiCatch(thrown) ==
    ApiResponse(JSUndefined,
                JSString(IF thrown.isError THEN thrown.message ELSE "Network error"),
                500)

\* What apiRequest resolves to when its call of fetch ends as outcome o.
apiRequest(o) ==
    IF o.kind = "rejected" THEN ApiCatch(o.thrown)
    ELSE IF IsJsonContentType(o.contentType)
    THEN LET responseData == JsonParse(o.body)
         IN  IF responseData.threw THEN ApiCatch(responseData.thrown)
             ELSE IF Ok(o) THEN ApiResponse(responseData.value, JSUndefined, o.status)
             ELSE LET message == MessageOf(responseData.value)
                  IN  IF message.threw THEN ApiCatch(message.thrown)
                      ELSE ApiResponse(JSUndefined,
                                       Or(message.value, JSString("An error occurred")),
                                       o.status)
    ELSE IF Ok(o) THEN ApiResponse(JSString(o.body), JSUndefined, o.status)
    ELSE ApiResponse(JSUndefined,
                     JSString("Request failed with status " \o StatusText(o.status)),
                     o.status)

-----------------------------------------------------------------------------
(* LoginForm *)

\* An onSubmit invocation suspended at `await api.post(...)`: `id` is the
\* number of its fetch call, `outcome` what that fetch has done so far.
Invocation(id, outcome) == [id |-> id, outcome |-> outcome]

Pending == {r \in inflight : r.outcome.kind = "none"}

Settled == {r \in inflight : r.outcome.kind # "none"}

\* The disabled attributes below read the committed isLoading: React commits
\* the state set during a submit or click event before the browser delivers
\* the next event, and form.handleSubmit reaches onSubmit through promise
\* continuations only, so no user event falls between a submit event and
\* onSubmit's setIsLoading(true).

\* <Input disabled={isLoading}> of the email and password fields
InputDisabled == isLoading

\* <Button type='submit' disabled={isLoading}>
SubmitDisabled == isLoading

\* The Google button without its disabled attribute.
GoogleDisabled_Never == FALSE

\* <Button type='button' onClick={handleGoogleLogin} disabled={isLoading}>
GoogleDisabled == isLoading

\* The user edits the email field.
ChangeEmail ==
    /\ ~InputDisabled
    /\ \E e \in Emails : values' = [values EXCEPT !.email = e]
    /\ UNCHANGED <<isLoading, error, showPassword, submitCount, inflight,
                   fetchCalls, pushes>>
    /\ UNCHANGED clientVars

\* The user edits the password field.
ChangePassword ==
    /\ ~InputDisabled
    /\ \E p \in Passwords : values' = [values EXCEPT !.password = p]
    /\ UNCHANGED <<isLoading, error, showPassword, submitCount, inflight,
                   fetchCalls, pushes>>
    /\ UNCHANGED clientVars

\* onClick={() => setShowPassword(!showPassword)}: this button is never
\* disabled.
TogglePassword ==
    /\ showPassword' = ~showPassword
    /\ UNCHANGED <<isLoading, error, values, submitCount, inflight, fetchCalls,
                   pushes>>
    /\ UNCHANGED clientVars

\* onSubmitStart without its setError(null).
onSubmitStart_KeepsError ==
    /\ isLoading' = TRUE
    /\ UNCHANGED error
    /\ fetchCalls' = fetchCalls + 1
    /\ inflight' = inflight \cup {Invocation(fetchCalls + 1, NoOutcome)}
    /\ UNCHANGED pushes

\* onSubmit up to its await: setIsLoading(true), setError(null), and api.post
\* runs apiRequest up to its call of fetch.
onSubmitStart ==
    /\ isLoading' = TRUE
    /\ error' = JSNull
    /\ fetchCalls' = fetchCalls + 1
    /\ inflight' = inflight \cup {Invocation(fetchCalls + 1, NoOutcome)}
    /\ UNCHANGED pushes

\* form.handleSubmit(onSubmit) with resolver zodResolver(LoginBody): a submit
\* event validates the values and runs onSubmit only when they are valid.
handleSubmit ==
    /\ ~SubmitDisabled
    /\ submitCount < MaxSubmits
    /\ submitCount' = submitCount + 1
    /\ IF LoginBodyValid(values)
       THEN onSubmitStart
       ELSE UNCHANGED <<isLoading, error, inflight, fetchCalls, pushes>>
    /\ UNCHANGED <<showPassword, values>>
    /\ UNCHANGED clientVars

\* The network: a pending fetch resolves to a Response or rejects.
FetchSettles ==
    /\ \E r \in Pending, o \in Outcomes :
         inflight' = (inflight \ {r}) \cup {Invocation(r.id, o)}
    /\ UNCHANGED <<isLoading, error, showPassword, values, submitCount,
                   fetchCalls, pushes>>
    /\ UNCHANGED clientVars

\* onSubmitResume with setIsLoading(false) at the end of the try block instead
\* of in finally: a failed attempt leaves the flag set.
onSubmitResume_NoFinally(r) ==
    LET response == apiRequest(r.outcome)
        thrown   == NewError(Or(response.error, JSString("Login failed")))
    IN  /\ inflight' = inflight \ {r}
        /\ IF Truthy(response.data)
           THEN /\ pushes' = pushes + 1
                /\ isLoading' = FALSE
                /\ UNCHANGED error
           ELSE /\ error' = JSString(thrown.message)
                /\ UNCHANGED <<pushes, isLoading>>
        /\ UNCHANGED fetchCalls

\* onSubmitResume throwing new Error(response.error), without the
\* || 'Login failed' fallback.
onSubmitResume_NoFallback(r) ==
    LET response == apiRequest(r.outcome)
        thrown   == NewError(response.error)
    IN  /\ inflight' = inflight \ {r}
        /\ IF Truthy(response.data)
           THEN /\ pushes' = pushes + 1
                /\ UNCHANGED error
           ELSE /\ error' = JSString(thrown.message)
                /\ UNCHANGED pushes
        /\ isLoading' = FALSE
        /\ UNCHANGED fetchCalls

\* onSubmitResume that posts the login again when the attempt failed.
onSubmitResume_Retry(r) ==
    LET response == apiRequest(r.outcome)
    IN  IF Truthy(response.data)
        THEN /\ inflight' = inflight \ {r}
             /\ pushes' = pushes + 1
             /\ isLoading' = FALSE
             /\ UNCHANGED <<error, fetchCalls>>
        ELSE /\ inflight' = (inflight \ {r}) \cup {Invocation(fetchCalls + 1, NoOutcome)}
             /\ fetchCalls' = fetchCalls + 1
             /\ UNCHANGED <<error, pushes, isLoading>>

\* onSubmit from its await to its end, for the invocation r whose fetch has
\* settled: branch on response.data, catch, finally.
onSubmitResume(r) ==
    LET response == apiRequest(r.outcome)
        thrown   == NewError(Or(response.error, JSString("Login failed")))
    IN  /\ inflight' = inflight \ {r}
        /\ IF Truthy(response.data)
           THEN /\ pushes' = pushes + 1
                /\ UNCHANGED error
           ELSE /\ error' = JSString(IF thrown.isError THEN thrown.message
                                     ELSE "Login failed. Please try again.")
                /\ UNCHANGED pushes
        /\ isLoading' = FALSE
        /\ UNCHANGED fetchCalls

\* The continuation of a settled invocation runs.
Resume ==
    /\ \E r \in Settled : onSubmitResume(r)
    /\ UNCHANGED <<showPassword, values, submitCount>>
    /\ UNCHANGED clientVars

\* handleGoogleLogin: setIsLoading(true), setError(null), an empty try, and
\* setIsLoading(false) in finally, all in one synchronous run.
handleGoogleLogin ==
    /\ ~GoogleDisabled
    /\ error' = JSNull
    /\ isLoading' = FALSE
    /\ UNCHANGED <<showPassword, values, submitCount, inflight, fetchCalls,
                   pushes>>
    /\ UNCHANGED clientVars

-----------------------------------------------------------------------------
(* utils/api.ts: createApiClient *)

Schemas == {"z.string()", "z.object({ message: z.string() })"}

\* schema.parse(x) returns instead of throwing.
Conforms(sch, x) ==
    CASE sch = "z.string()" -> x.t = "string"
      [] sch = "z.object({ message: z.string() })" -> x.t = "object" /\ x.mt = "string"
      [] OTHER -> FALSE

Endpoint == "/users"

Ids == {"1", "2"}

\* getAll: api.get(endpoint); a truthy response.data is parsed with the schema
\* and a failure of the parse is logged; the response is returned.
getAll(o) ==
    LET response == apiRequest(o)
    IN  /\ clientUrl' = <<Endpoint>>
        /\ clientOutcome' = o
        /\ validationFailed' = (Truthy(response.data) /\ ~Conforms(schema, response.data))
        /\ clientResult' = response
        /\ UNCHANGED schema

\* getById: api.get(`${endpoint}/${id}`), returned as it is.
getById(id, o) ==
    /\ clientUrl' = <<Endpoint, id>>
    /\ clientOutcome' = o
    /\ validationFailed' = FALSE
    /\ clientResult' = apiRequest(o)
    /\ UNCHANGED schema

\* A caller awaits client.getAll().
CallGetAll ==
    /\ \E o \in Outcomes : getAll(o)
    /\ UNCHANGED formVars

\* A caller awaits client.getById(id).
CallGetById ==
    /\ \E id \in Ids, o \in Outcomes : getById(id, o)
    /\ UNCHANGED formVars

-----------------------------------------------------------------------------
(* Specifications *)

\* The form as LoginForm() first renders it.
FormInit ==
    /\ isLoading = FALSE
    /\ error = JSNull
    /\ showPassword = FALSE
    /\ values = [email |-> <<>>, password |-> <<>>]
    /\ submitCount = 0
    /\ inflight = {}
    /\ fetchCalls = 0
    /\ pushes = 0

\* A client before its first call.
ClientIdle ==
    /\ clientUrl = <<>>
    /\ clientOutcome = NoOutcome
    /\ clientResult = NoResponse
    /\ validationFailed = FALSE

\* One mounted LoginForm; no client is in use.
Init ==
    /\ FormInit
    /\ schema = "z.string()"
    /\ ClientIdle

Next ==
    \/ ChangeEmail
    \/ ChangePassword
    \/ TogglePassword
    \/ handleSubmit
    \/ FetchSettles
    \/ Resume
    \/ handleGoogleLogin

Spec == Init /\ [][Next]_vars

\* The event loop runs the continuation of every settled await.
FairSpec == Spec /\ WF_vars(Resume)

\* A client made by createApiClient(Endpoint, schema).
ClientInit ==
    /\ FormInit
    /\ schema \in Schemas
    /\ ClientIdle

ClientNext ==
    \/ CallGetAll
    \/ CallGetById

ClientSpec == ClientInit /\ [][ClientNext]_vars

-----------------------------------------------------------------------------
(* Properties *)

\* The step is onSubmit finishing for invocation r.
Finishes(r) == r \in Settled /\ inflight' = inflight \ {r}

\* The step is a submit event.
Submits == submitCount' # submitCount

\* The exception apiRequest catches for outcome o: the value fetch rejected
\* with, or the SyntaxError of response.json().
Exception(o) ==
    IF o.kind = "rejected" THEN o.thrown ELSE JsonParse(o.body).thrown

\* fetch rejected, or the body of a JSON response failed to parse.
NetworkOrParseFailure(o) ==
    \/ o.kind = "rejected"
    \/ o.kind = "response" /\ IsJsonContentType(o.contentType) /\ JsonParse(o.body).threw

\* C1: a submit event whose values do not satisfy LoginBody (email not a
\* well-formed address, password shorter than 6 or longer than 100 characters)
\* does not run onSubmit: no fetch is called, nothing is put in flight,
\* isLoading is false after it and router.push is not called.
C1_InvalidSubmitRejected ==
    [][ ( /\ Submits
          /\ \/ ~IsEmail(values.email)
             \/ Len(values.password) < 6
             \/ Len(values.password) > 100 )
        => /\ fetchCalls' = fetchCalls
           /\ inflight' = inflight
           /\ isLoading' = FALSE
           /\ pushes' = pushes ]_vars

\* C1 witness: the one submit so far carried a well-formed email and a
\* five-character password, and no fetch was made.
C1_Witness ==
    /\ submitCount = 1
    /\ fetchCalls = 0
    /\ IsEmail(values.email)
    /\ Len(values.password) = 5
    /\ ~isLoading

\* C2: isLoading is true from the step that calls fetch, stays true while the
\* request is pending or settled but not yet handled, and every settled request
\* leads to a state where it has been handled and isLoading is false.
C2_LoadingToggles ==
    /\ [][fetchCalls' # fetchCalls => isLoading']_vars
    /\ [](inflight # {} => isLoading)
    /\ (Settled # {}) ~> (Settled = {} /\ ~isLoading)

\* C2 witness: a request that ended in an exception has been handled and
\* loading has stopped.
C2_Witness ==
    /\ fetchCalls = 1
    /\ inflight = {}
    /\ error = JSString("Failed to fetch")
    /\ ~isLoading

\* C3: when onSubmit finishes for a request whose response has no truthy data,
\* error is a non-empty string (the response's error text, or 'Login failed'
\* when it has none), router.push was not called and isLoading is false.
C3_ErrorShownOnFailure ==
    [][ \A r \in inflight :
          (Finishes(r) /\ ~Truthy(apiRequest(r.outcome).data))
          => /\ error'.t = "string"
             /\ error'.v # ""
             /\ error'.v = IF Truthy(apiRequest(r.outcome).error)
                           THEN JSToString(apiRequest(r.outcome).error)
                           ELSE "Login failed"
             /\ pushes' = pushes
             /\ isLoading' = FALSE ]_vars

\* C3 witness: an error response has been handled: its text is shown, nothing
\* was pushed and loading has stopped.
C3_Witness ==
    /\ error = JSString("Invalid credentials")
    /\ pushes = 0
    /\ inflight = {}
    /\ ~isLoading

\* C4: when onSubmit finishes for a request the server answered with an ok
\* status, whatever the body, router.push('/home') was called once and error is
\* null; for any other request router.push was not called.
C4_RedirectOnOkResponse ==
    [][ \A r \in inflight :
          Finishes(r)
          => IF Ok(r.outcome)
             THEN pushes' = pushes + 1 /\ error' = JSNull
             ELSE pushes' = pushes ]_vars

\* C5 as stated: for every network or parse failure apiRequest returns the same
\* fixed message.
C5_GenericMessage ==
    \A r \in Settled :
        NetworkOrParseFailure(r.outcome)
        => apiRequest(r.outcome).error = JSString("Network error")

\* C5 amended: when onSubmit finishes for a request that ended in a network or
\* parse failure, the message shown is the exception's own text when the
\* exception is an Error ('Login failed' when that text is empty), and the
\* fixed 'Network error' only when the thrown value is no Error.
C5_ExceptionTextShown ==
    [][ \A r \in inflight :
          (Finishes(r) /\ NetworkOrParseFailure(r.outcome))
          => error'.v = IF ~Exception(r.outcome).isError THEN "Network error"
                        ELSE IF Exception(r.outcome).message = "" THEN "Login failed"
                        ELSE Exception(r.outcome).message ]_vars

\* C5 witness: the SyntaxError of a body that is no JSON is shown with its
\* own text.
C5_Witness ==
    /\ error = JSString("Unexpected end of JSON input")
    /\ inflight = {}
    /\ ~isLoading

\* C6: fetch is called once in the step of a submit event with valid values
\* and in no other step, and a step adds at most that one request to those in
\* flight; onSubmit finishing for a failed request changes only error and
\* isLoading besides taking its request out of flight.
C6_OneFetchPerSubmit ==
    [][ /\ fetchCalls' = fetchCalls + IF Submits /\ LoginBodyValid(values) THEN 1 ELSE 0
        /\ Cardinality({r.id : r \in inflight'} \ {r.id : r \in inflight}) =
               IF Submits /\ LoginBodyValid(values) THEN 1 ELSE 0
        /\ \A r \in inflight :
             (r \notin inflight' /\ r.outcome.kind # "none" /\ ~Truthy(apiRequest(r.outcome).data))
             => /\ inflight' = inflight \ {r}
                /\ pushes' = pushes
                /\ isLoading' = FALSE ]_vars

\* C6 witness: one accepted submit has failed; one fetch was made and nothing
\* is in flight.
C6_Witness ==
    /\ submitCount = 1
    /\ fetchCalls = 1
    /\ inflight = {}
    /\ error # JSNull
    /\ pushes = 0

\* C7: the result of apiRequest has truthy data and no error when the response
\* is ok, and a non-empty error and no data otherwise.
C7_ResultBranchesOnData ==
    clientOutcome.kind # "none"
    => IF Ok(clientOutcome) /\ ~NetworkOrParseFailure(clientOutcome)
       THEN Truthy(clientResult.data) /\ clientResult.error = JSUndefined
       ELSE /\ clientResult.error.t = "string"
            /\ clientResult.error.v # ""
            /\ clientResult.data = JSUndefined

\* C8: truthy data a client call returns conforms to the client's schema.
C8_ReturnedDataConforms ==
    (clientUrl # <<>> /\ Truthy(clientResult.data))
    => Conforms(schema, clientResult.data)

\* C9: at most one login request is in flight, and isLoading is true whenever
\* one is.
C9_SingleRequestInFlight ==
    /\ Cardinality(inflight) <= 1
    /\ inflight # {} => isLoading

\* C9 witness: the second accepted submit is in flight alone, after the
\* password was made visible.
C9_Witness ==
    /\ Cardinality(inflight) = 1
    /\ fetchCalls = 2
    /\ showPassword
    /\ isLoading

\* C10: isLoading implies error = null.
C10_NoErrorWhileLoading == isLoading => error = JSNull

\* C10 witness: a second attempt is in progress after the first one failed.
C10_Witness ==
    /\ isLoading
    /\ fetchCalls = 2
    /\ pushes = 0
    /\ error = JSNull

====
